---- MODULE Spec2Model ----
(***************************************************************************)
(* A model of daily_dashboard.py: five source normalizers, the percentage  *)
(* colouriser and the report generator, run in sequence by __main__.       *)
(*                                                                         *)
(* Text is modelled as a sequence of one-character strings, so that strip, *)
(* replace, substring tests, number formatting and the regular expression  *)
(* of color_percentages are computed character by character.               *)
(* A DataFrame is [columns |-> <<names>>, rows |-> <<rows>>], a row being  *)
(* the sequence of its cells in column order.                              *)
(***************************************************************************)
EXTENDS Integers, Sequences, FiniteSets, TLC

VARIABLES pc, args, net, file, headlines, energy_df, market_df, stocks_df,
          forecast_df, html, trace, html_str, colored

vars == <<pc, args, net, file, headlines, energy_df, market_df, stocks_df,
          forecast_df, html, trace, html_str, colored>>

(***************************************************************************)
(* Bounds of the checked input sets.                                       *)
(***************************************************************************)
MaxEntries == 4
MaxLimit == 4
MaxEnergyRows == 2
MaxCells == 6
MaxCsvRows == 2
MaxSig == 4
MaxZeros == 10
MaxSeries == 3
MaxTokens == 4

(***************************************************************************)
(* The arguments __main__ passes (lines 278-282).                          *)
(***************************************************************************)
MAIN_LIMIT == 8
MAIN_ENERGY_TOP_N == 10
MAIN_MARKET_TOP_N == 15
MAIN_HOURS_TO_SHOW == 12

(***************************************************************************)
(* Python string and sequence primitives.                                  *)
(***************************************************************************)
Min(a, b) == IF a <= b THEN a ELSE b

Max(a, b) == IF a >= b THEN a ELSE b

Digits == <<"0","1","2","3","4","5","6","7","8","9">>

IsDigit(c) == \E i \in 1..10 : Digits[i] = c

DigitVal(c) == (CHOOSE i \in 1..10 : Digits[i] = c) - 1

IsSpace(c) == c \in {" ", "\t", "\n"}

\* s[:n] for a list or a string, negative n included
PySliceTo(s, n) ==
    IF n >= 0 THEN SubSeq(s, 1, Min(n, Len(s)))
    ELSE SubSeq(s, 1, Max(Len(s) + n, 0))

RECURSIVE lstrip(_)
lstrip(s) == IF s # <<>> /\ IsSpace(Head(s)) THEN lstrip(Tail(s)) ELSE s

RECURSIVE rstrip(_)
rstrip(s) ==
    IF s # <<>> /\ IsSpace(s[Len(s)]) THEN rstrip(SubSeq(s, 1, Len(s) - 1)) ELSE s

\* str.strip()
strip(s) == rstrip(lstrip(s))

\* `c in s` for a single character c
HasChar(s, c) == \E i \in 1..Len(s) : s[i] = c

\* `sub in s` for strings
Contains(s, sub) ==
    \E i \in 0..(Len(s) - Len(sub)) : SubSeq(s, i + 1, i + Len(sub)) = sub

\* s.replace(c, "") for a single character c
Remove(s, c) == SelectSeq(s, LAMBDA x : x # c)

RECURSIVE Concat(_)
Concat(ss) == IF ss = <<>> THEN <<>> ELSE Head(ss) \o Concat(Tail(ss))

\* str(n) for an integer n
RECURSIVE NatStr(_)
NatStr(n) == IF n < 10 THEN <<Digits[n + 1]>> ELSE NatStr(n \div 10) \o <<Digits[(n % 10) + 1]>>

IntStr(n) == IF n < 0 THEN <<"-">> \o NatStr(-n) ELSE NatStr(n)

\* the value of a short digit string
RECURSIVE DigitsVal(_)
DigitsVal(ds) ==
    IF ds = <<>> THEN 0 ELSE 10 * DigitsVal(SubSeq(ds, 1, Len(ds) - 1)) + DigitVal(ds[Len(ds)])

\* pandas: DataFrame.empty is true when either axis has length 0
Empty(df) == Len(df.columns) = 0 \/ Len(df.rows) = 0

\* pandas: DataFrame.head(n)
Head_n(df, n) == [columns |-> df.columns, rows |-> PySliceTo(df.rows, n)]

\* pandas: DataFrame(columns=[...])
EmptyFrame(cols) == [columns |-> cols, rows |-> <<>>]

\* pandas: DataFrame(list of dicts): the columns are the keys of the dicts, and
\* a DataFrame built from an empty list has no columns at all
FrameOf(cols, rows) == IF rows = <<>> THEN EmptyFrame(<<>>) ELSE [columns |-> cols, rows |-> rows]

(***************************************************************************)
(* 1. scrape_okdiario_headlines (lines 23-36).                             *)
(* A feed is [raises, entries]: feedparser.parse either raises or gives    *)
(* the entries; an entry is [has_title, title].                            *)
(***************************************************************************)
NO_RECENT == <<"N","o"," ","r","e","c","e","n","t"," ","h","e","a","d","l","i","n","e","s"," ","a","v","a","i","l","a","b","l","e">>

HEADLINES_UNAVAILABLE == <<"H","e","a","d","l","i","n","e","s"," ","u","n","a","v","a","i","l","a","b","l","e"," ","a","t"," ","t","h","e"," ","m","o","m","e","n","t">>

\* lines 28-32: the loop over the entries already sliced
RECURSIVE CollectTitles(_)
CollectTitles(es) ==
    IF es = <<>> THEN <<>>
    ELSE LET e == Head(es)
             title == strip(e.title)
         IN  (IF e.has_title /\ title # <<>> THEN <<title>> ELSE <<>>)
                 \o CollectTitles(Tail(es))

\* a plausible slip: filter the whole feed, then cut to the limit
HeadlinesFilterThenSlice(feed, limit) ==
    IF feed.raises THEN <<HEADLINES_UNAVAILABLE>>
    ELSE LET hs == PySliceTo(CollectTitles(feed.entries), limit)
         IN  IF hs # <<>> THEN hs ELSE <<NO_RECENT>>

scrape_okdiario_headlines(feed, limit) ==
    IF feed.raises THEN <<HEADLINES_UNAVAILABLE>>
    ELSE LET hs == CollectTitles(PySliceTo(feed.entries, limit))
         IN  IF hs # <<>> THEN hs ELSE <<NO_RECENT>>

(***************************************************************************)
(* 2. scrape_energy_prices (lines 41-87).                                  *)
(* The response is [kind, tables]: kind "error" (requests.get raises),     *)
(* "status" (raise_for_status raises) or "page"; a table is the sequence   *)
(* of its tr rows, a row the texts of its td cells after get_text(strip).  *)
(***************************************************************************)
ENERGY_COLUMNS == <<<<"R","e","g","i","o","n">>, <<"C","h","a","n","g","e"," ","%">>, <<"A","v","g"," ","P","r","i","c","e">>, <<"H","i","g","h">>, <<"L","o","w">>>>

\* re.sub(r'^\d+\s*', '', s): drop leading digits, then the whitespace after
\* them; a string that does not start with a digit is left alone
RECURSIVE DropDigits(_)
DropDigits(s) == IF s # <<>> /\ IsDigit(Head(s)) THEN DropDigits(Tail(s)) ELSE s

CleanRegion(s) ==
    strip(IF s # <<>> /\ IsDigit(Head(s)) THEN lstrip(DropDigits(s)) ELSE s)

\* a plausible slip: the elif branch starts the prices at the change column
AvgStartElifOffByOne(cols) ==
    IF HasChar(cols[2], "%") THEN 2
    ELSE IF Len(cols) > 2 /\ HasChar(cols[3], "%") THEN 2
    ELSE 1

\* lines 63-69: avg_start, as a 0-based Python index (cols[k] is cols[k+1] here)
AvgStart(cols) ==
    IF HasChar(cols[2], "%") THEN 2
    ELSE IF Len(cols) > 2 /\ HasChar(cols[3], "%") THEN 3
    ELSE 1

\* lines 62-69: change
Change(cols) ==
    IF HasChar(cols[2], "%") THEN cols[2]
    ELSE IF Len(cols) > 2 /\ HasChar(cols[3], "%") THEN cols[3]
    ELSE <<>>

\* lines 71-73: cols[k] if len(cols) > k else ""
CellOrEmpty(cols, k) == IF Len(cols) > k THEN cols[k + 1] ELSE <<>>

\* lines 59-81: the record appended for one row of at least 3 cells
EnergyRecord(cols) ==
    LET a == AvgStart(cols)
    IN  <<CleanRegion(cols[1]), Change(cols), CellOrEmpty(cols, a),
          CellOrEmpty(cols, a + 1), CellOrEmpty(cols, a + 2)>>

\* lines 52-81: the loop over the rows after the header row
RECURSIVE EnergyData(_)
EnergyData(trs) ==
    IF trs = <<>> THEN <<>>
    ELSE (IF Len(Head(trs)) < 3 THEN <<>> ELSE <<EnergyRecord(Head(trs))>>)
             \o EnergyData(Tail(trs))

scrape_energy_prices(resp, top_n) ==
    IF resp.kind \in {"error", "status"} THEN EmptyFrame(ENERGY_COLUMNS)
    ELSE IF resp.tables = <<>> THEN EmptyFrame(ENERGY_COLUMNS)
    ELSE LET table == Head(resp.tables)
             df == FrameOf(ENERGY_COLUMNS, EnergyData(SubSeq(table, 2, Len(table))))
         IN  IF ~Empty(df) THEN Head_n(df, top_n) ELSE EmptyFrame(ENERGY_COLUMNS)

(***************************************************************************)
(* 3. scrape_eu_market_cap (lines 92-136).                                 *)
(* The response is [kind, header, rows]: kind "error" (requests.get        *)
(* raises), "status" (raise_for_status raises), "empty" (read_csv raises   *)
(* EmptyDataError) or "csv", with the header fields and the data rows as   *)
(* the raw field texts, every row as long as the header.                   *)
(* The input sets hold integer literals, decimals of at most two           *)
(* fractional digits and non-numeric text: exponents, underscores, inf and *)
(* longer fractions, which float() also reads, are not drawn.              *)
(***************************************************************************)
MARKET_COLUMNS == <<<<"R","a","n","k">>, <<"C","o","m","p","a","n","y">>, <<"M","a","r","k","e","t"," ","C","a","p">>>>

DAILY == <<"D","a","i","l","y"," ","%">>

UPPER == <<"A","B","C","D","E","F","G","H","I","J","K","L","M","N","O","P","Q","R","S","T","U","V","W","X","Y","Z">>

LOWER == <<"a","b","c","d","e","f","g","h","i","j","k","l","m","n","o","p","q","r","s","t","u","v","w","x","y","z">>

LowerChar(c) ==
    IF \E i \in 1..26 : UPPER[i] = c THEN LOWER[CHOOSE i \in 1..26 : UPPER[i] = c] ELSE c

\* str.lower()
lower(s) == [i \in 1..Len(s) |-> LowerChar(s[i])]

\* line 98: str(c).strip().lower().replace(" ", "")
NormalizeHeader(c) == Remove(lower(strip(c)), " ")

\* pandas read_csv: the field texts it reads as missing (some of its defaults)
NA_VALUES == {<<>>, <<"N","/","A">>, <<"n","/","a">>, <<"N","A">>, <<"N","a","N">>, <<"n","a","n">>, <<"n","u","l","l">>}

\* a cell of the frame read: NaN, or the text str() gives for it
CsvCell(raw) == [nan |-> raw \in NA_VALUES, s |-> IF raw \in NA_VALUES THEN <<"n","a","n">> ELSE raw]

\* the text to_html shows for a cell passed through unformatted
CellText(v) == IF v.nan THEN <<"N","a","N">> ELSE v.s

\* lines 100-103: the keyword tests of the four roles
IsRole(role, c) ==
    CASE role = "rank" -> Contains(c, <<"r","a","n","k">>)
      [] role = "name" -> Contains(c, <<"n","a","m","e">>) \/ Contains(c, <<"c","o","m","p","a","n","y">>)
      [] role = "mcap" -> Contains(c, <<"m","a","r","k","e","t","c","a","p">>) \/ Contains(c, <<"m","a","r","k","e","t">>)
      [] role = "change" -> Contains(c, <<"t","o","d","a","y">>) \/ Contains(c, <<"c","h","a","n","g","e">>) \/ Contains(c, <<"1","d">>)

\* the generator in next(...): the index of the first column of the role, 0
\* when there is none
FirstCol(cols, role) ==
    IF \E i \in 1..Len(cols) : IsRole(role, cols[i])
    THEN CHOOSE i \in 1..Len(cols) :
             IsRole(role, cols[i]) /\ \A j \in 1..(i - 1) : ~IsRole(role, cols[j])
    ELSE 0

\* lines 100-102: next(generator, df.columns[k]). Python evaluates the default
\* df.columns[k] before next() runs, so it raises IndexError when the frame has
\* no column k, whether or not a column matches
NextOr(cols, found, k) ==
    IF Len(cols) <= k THEN [raised |-> TRUE, col |-> <<>>]
    ELSE IF found # 0 THEN [raised |-> FALSE, col |-> cols[found]]
    ELSE [raised |-> FALSE, col |-> cols[k + 1]]

\* line 100
RankCol(cols) == NextOr(cols, FirstCol(cols, "rank"), 0)

\* line 101
NameCol(cols) == NextOr(cols, FirstCol(cols, "name"), 1)

\* line 102
McapCol(cols) == NextOr(cols, FirstCol(cols, "mcap"), 2)

\* line 103: the change column's index, 0 for None
ChangeCol(cols) == FirstCol(cols, "change")

\* df[selected]: for each selected label, every column carrying that label
Positions(cols, selected) ==
    Concat([k \in 1..Len(selected) |->
              SelectSeq([i \in 1..Len(cols) |-> i], LAMBDA i : cols[i] = selected[k])])

\* float(text) on the drawn texts: [ok, nan, digits], digits without leading zeros
RECURSIVE DropZeros(_)
DropZeros(ds) == IF Len(ds) > 1 /\ Head(ds) = "0" THEN DropZeros(Tail(ds)) ELSE ds

AllDigits(s) == s # <<>> /\ \A i \in 1..Len(s) : IsDigit(s[i])

ParseFloatInt(s) ==
    LET t == strip(s)
    IN  IF lower(t) = <<"n","a","n">> THEN [ok |-> TRUE, nan |-> TRUE, digits |-> <<>>]
        ELSE IF AllDigits(t) THEN [ok |-> TRUE, nan |-> FALSE, digits |-> DropZeros(t)]
        ELSE [ok |-> FALSE, nan |-> FALSE, digits |-> <<>>]

\* str(v) of a float holding a whole number below 1e16
FloatRepr(ds) == ds \o <<".","0">>

\* v *= 10^k on a whole number
TimesPow10(ds, k) == IF ds = <<"0">> THEN ds ELSE ds \o [i \in 1..k |-> "0"]

\* f"{v/10^k:.2f}" for a whole number v >= 10^k given by its digits: the
\* quotient rounded to hundredths. When the digits cut off are exactly 5000...
\* the decimal value is a tie and the result follows the binary double nearest
\* to the quotient, which lies on either side of it: tie_up tells which.
Fixed2(ds, k, tie_up) ==
    LET n == Len(ds)
        kept == DigitsVal(SubSeq(ds, 1, n - k + 2))
        rest == SubSeq(ds, n - k + 3, n)
        tie == rest[1] = "5" /\ \A i \in 2..Len(rest) : rest[i] = "0"
        up == IF tie THEN tie_up
              ELSE DigitVal(rest[1]) >= 5
        h == IF up THEN kept + 1 ELSE kept
    IN  NatStr(h \div 100) \o <<".">> \o <<Digits[((h % 100) \div 10) + 1], Digits[(h % 10) + 1]>>

\* f"{v:,.0f}" for a whole number
RECURSIVE Grouped(_)
Grouped(ds) ==
    IF Len(ds) <= 3 THEN ds
    ELSE Grouped(SubSeq(ds, 1, Len(ds) - 3)) \o <<",">> \o SubSeq(ds, Len(ds) - 2, Len(ds))

\* a plausible slip: strict comparisons at the thresholds
format_mcap_strict(v, tie_up) ==
    LET raw == v.s
        f == ParseFloatInt(Remove(Remove(Remove(Remove(raw, "$"), ","), "B"), "T"))
    IN  IF ~f.ok THEN raw
        ELSE IF f.nan THEN <<"$","n","a","n">>
        ELSE LET d == f.digits
             IN  IF Len(d) >= 13 /\ d # TimesPow10(<<"1">>, 12)
                     THEN <<"$">> \o Fixed2(d, 12, tie_up) \o <<"T">>
                 ELSE IF Len(d) >= 10 /\ d # TimesPow10(<<"1">>, 9) /\ Len(d) < 13
                     THEN <<"$">> \o Fixed2(d, 9, tie_up) \o <<"B">>
                 ELSE <<"$">> \o Grouped(d)

\* lines 115-124. v >= 1e12 is "at least 13 digits", v >= 1e9 "at least 10".
format_mcap(v, tie_up) ==
    LET raw == v.s
        f == ParseFloatInt(Remove(Remove(Remove(Remove(raw, "$"), ","), "B"), "T"))
    IN  IF ~f.ok THEN raw
        ELSE IF f.nan THEN <<"$","n","a","n">>
        ELSE LET d0 == f.digits
                 d == IF HasChar(FloatRepr(d0), "T") THEN TimesPow10(d0, 12)
                      ELSE IF HasChar(FloatRepr(d0), "B") THEN TimesPow10(d0, 9)
                      ELSE d0
             IN  IF Len(d) >= 13 THEN <<"$">> \o Fixed2(d, 12, tie_up) \o <<"T">>
                 ELSE IF Len(d) >= 10 THEN <<"$">> \o Fixed2(d, 9, tie_up) \o <<"B">>
                 ELSE <<"$">> \o Grouped(d)

\* float(text) for a signed decimal: [ok, neg, hundredths]
ParseDecimal(s) ==
    LET t == strip(s)
        signed == t # <<>> /\ Head(t) \in {"+", "-"}
        body == IF signed THEN Tail(t) ELSE t
        dot == IF HasChar(body, ".") THEN CHOOSE i \in 1..Len(body) : body[i] = "." /\ \A j \in 1..(i - 1) : body[j] # "." ELSE Len(body) + 1
        ip == SubSeq(body, 1, dot - 1)
        fp == SubSeq(body, dot + 1, Len(body))
        ok == /\ \A i \in 1..Len(ip) : IsDigit(ip[i])
              /\ \A i \in 1..Len(fp) : IsDigit(fp[i])
              /\ Len(ip) + Len(fp) > 0
        fp2 == SubSeq(fp \o <<"0", "0">>, 1, 2)
    IN  IF ok THEN [ok |-> TRUE, neg |-> signed /\ Head(t) = "-",
                    hundredths |-> 100 * DigitsVal(ip) + DigitsVal(fp2)]
        ELSE [ok |-> FALSE, neg |-> FALSE, hundredths |-> 0]

\* lines 129-131: the lambda applied to a Daily % cell: [raised, text]
format_daily(v) ==
    IF ~v.nan /\ strip(v.s) # <<>>
    THEN LET f == ParseDecimal(Remove(v.s, "%"))
         IN  IF ~f.ok THEN [raised |-> TRUE, text |-> <<>>]
             ELSE [raised |-> FALSE,
                   text |-> (IF f.neg THEN <<"-">> ELSE <<>>) \o NatStr(f.hundredths \div 100)
                            \o <<".">> \o <<Digits[((f.hundredths % 100) \div 10) + 1],
                                             Digits[(f.hundredths % 10) + 1]>> \o <<"%">>]
    ELSE [raised |-> FALSE, text |-> <<>>]

\* lines 97-133, the body of the try: [raised, value]
MarketCapBody(resp, top_n, tie_up) ==
    LET cols == [i \in 1..Len(resp.header) |-> NormalizeHeader(resp.header[i])]
        rank == RankCol(cols)
        name == NameCol(cols)
        mcap == McapCol(cols)
        change == ChangeCol(cols)
        selected == <<rank.col, name.col, mcap.col>>
                        \o (IF change # 0 THEN <<cols[change]>> ELSE <<>>)
        pos == Positions(cols, selected)
        col_names == MARKET_COLUMNS \o (IF change # 0 THEN <<DAILY>> ELSE <<>>)
        rows == PySliceTo(resp.rows, top_n)
        cell(r, k) == CsvCell(rows[r][pos[k]])
        daily(r) == format_daily(cell(r, 4))
        failed == [raised |-> TRUE, value |-> EmptyFrame(<<>>)]
    IN  IF rank.raised \/ name.raised \/ mcap.raised THEN failed
        ELSE IF Len(pos) # Len(col_names) THEN failed
        ELSE IF change # 0 /\ \E r \in 1..Len(rows) : daily(r).raised THEN failed
        ELSE [raised |-> FALSE,
              value |-> [columns |-> col_names,
                         rows |-> [r \in 1..Len(rows) |->
                                     <<CellText(cell(r, 1)), CellText(cell(r, 2)),
                                       format_mcap(cell(r, 3), tie_up)>>
                                     \o (IF change # 0 THEN <<daily(r).text>> ELSE <<>>)]]]

scrape_eu_market_cap(resp, top_n, tie_up) ==
    IF resp.kind \in {"error", "status", "empty"} THEN EmptyFrame(MARKET_COLUMNS)
    ELSE LET body == MarketCapBody(resp, top_n, tie_up)
         IN  IF body.raised THEN EmptyFrame(MARKET_COLUMNS) ELSE body.value

(***************************************************************************)
(* 4. get_madrid_hourly_forecast (lines 141-176).                          *)
(* The response is [kind, data]: kind "error" (requests.get raises),       *)
(* "status" (raise_for_status raises), "badjson" (resp.json() raises) or   *)
(* "json"; data is the decoded object, a record that may lack "hourly",    *)
(* whose value is a record that may lack any of the five series.           *)
(* A time is the ISO text, a temperature a number of tenths of a degree, a *)
(* probability an integer, a precipitation a number of tenths of a mm.     *)
(***************************************************************************)
FORECAST_COLUMNS == <<<<"T","i","m","e">>, <<"T","e","m","p">>, <<"F","e","e","l","s">>, <<"R","a","i","n"," ","%">>, <<"R","a","i","n"," ","m","m">>, <<"C","o","n","d","i","t","i","o","n">>>>

\* datetime.fromisoformat on YYYY-MM-DDTHH:MM texts; anything else drawn raises
ValidIso(t) ==
    /\ Len(t) = 16
    /\ \A i \in {1, 2, 3, 4, 6, 7, 9, 10, 12, 13, 15, 16} : IsDigit(t[i])
    /\ t[5] = "-" /\ t[8] = "-" /\ t[11] = "T" /\ t[14] = ":"
    /\ DigitsVal(SubSeq(t, 12, 13)) < 24
    /\ DigitsVal(SubSeq(t, 15, 16)) < 60

\* .strftime("%H:%M")
HourMinute(t) == SubSeq(t, 12, 16)

\* str(x) and f"{x:.1f}" of a float given in tenths
TenthsStr(n) ==
    (IF n < 0 THEN <<"-">> ELSE <<>>)
        \o NatStr((IF n < 0 THEN -n ELSE n) \div 10) \o <<".">>
        \o <<Digits[((IF n < 0 THEN -n ELSE n) % 10) + 1]>>

\* lines 163-172: one row; rain_mm[i] > 0.1 on tenths is rain_mm[i] > 1
ForecastRow(times, temps, feels, rain_p, rain_mm, i) ==
    <<HourMinute(times[i]),
      TenthsStr(temps[i]) \o <<" ","°","C">>,
      TenthsStr(feels[i]) \o <<" ","°","C">>,
      IntStr(rain_p[i]) \o <<"%">>,
      TenthsStr(rain_mm[i]) \o <<" ","m","m">>,
      IF rain_mm[i] > 1 THEN <<"R","a","i","n">> ELSE <<"C","l","e","a","r","/","C","l","o","u","d","y">>>>

\* lines 151-173, the body of the try: [raised, value]
ForecastBody(resp, hours_to_show) ==
    LET failed == [raised |-> TRUE, value |-> EmptyFrame(<<>>)]
    IN  IF resp.kind # "json" THEN failed
        ELSE IF "hourly" \notin DOMAIN resp.data THEN failed
        ELSE LET hourly == resp.data.hourly
             IN  IF {"time", "temperature_2m", "apparent_temperature",
                     "precipitation_probability", "precipitation"} \ DOMAIN hourly # {}
                 THEN failed
                 ELSE LET times == PySliceTo(hourly.time, hours_to_show)
                          temps == PySliceTo(hourly.temperature_2m, hours_to_show)
                          feels == PySliceTo(hourly.apparent_temperature, hours_to_show)
                          rain_p == PySliceTo(hourly.precipitation_probability, hours_to_show)
                          rain_mm == PySliceTo(hourly.precipitation, hours_to_show)
                      IN  IF \E i \in 1..Len(times) :
                                 \/ ~ValidIso(times[i])
                                 \/ i > Len(rain_mm) \/ i > Len(temps)
                                 \/ i > Len(feels) \/ i > Len(rain_p)
                          THEN failed
                          ELSE [raised |-> FALSE,
                                value |-> FrameOf(FORECAST_COLUMNS,
                                            [i \in 1..Len(times) |->
                                               ForecastRow(times, temps, feels, rain_p, rain_mm, i)])]

get_madrid_hourly_forecast(resp, hours_to_show) ==
    LET body == ForecastBody(resp, hours_to_show)
    IN  IF body.raised THEN EmptyFrame(FORECAST_COLUMNS) ELSE body.value

(***************************************************************************)
(* 5. scrape_global_markets (lines 181-188).                               *)
(***************************************************************************)
scrape_global_markets ==
    [columns |-> <<<<"I","n","d","e","x">>, <<"W","e","e","k","l","y">>, <<"M","o","n","t","h","l","y">>, <<"Y","T","D">>, <<"Y","o","Y">>>>,
     rows |-> << <<<<"S","&","P"," ","5","0","0">>, <<"+","1",".","4","%">>, <<"+","4",".","2","%">>, <<"+","9",".","8","%">>, <<"+","1","9","%">>>>,
                 <<<<"E","u","r","o"," ","S","t","o","x","x"," ","5","0">>, <<"-","0",".","3","%">>, <<"+","2",".","8","%">>, <<"+","5",".","1","%">>, <<"+","1","3","%">>>>,
                 <<<<"D","A","X">>, <<"+","0",".","9","%">>, <<"+","3",".","1","%">>, <<"+","6",".","7","%">>, <<"+","1","5","%">>>> >>]

(***************************************************************************)
(* color_percentages (lines 193-200): re.sub of                            *)
(*     >([+-]?\d+\.?\d*%)<                                                  *)
(* scanning left to right, matches not overlapping. Each quantifier is     *)
(* followed by a character it cannot itself match, so the greedy match is  *)
(* the only one a backtracking search can find at a position.              *)
(***************************************************************************)
NEGATIVE_SPAN == <<"<","s","p","a","n"," ","s","t","y","l","e","=","\"","c","o","l","o","r",":","#","d","6","2","7","2","8",";"," ","f","o","n","t","-","w","e","i","g","h","t",":","6","0","0",";","\"",">">>

POSITIVE_SPAN == <<"<","s","p","a","n"," ","s","t","y","l","e","=","\"","c","o","l","o","r",":","#","2","c","a","0","2","c",";"," ","f","o","n","t","-","w","e","i","g","h","t",":","6","0","0",";","\"",">">>

SPAN_CLOSE == <<"<","/","s","p","a","n",">">>

\* s[i], or a value that is no character past the ends
At(s, i) == IF i \in 1..Len(s) THEN s[i] ELSE ""

\* the first index from i on that holds no digit
RECURSIVE SkipDigits(_, _)
SkipDigits(s, i) == IF IsDigit(At(s, i)) THEN SkipDigits(s, i + 1) ELSE i

\* the index of the closing "<" of a match that starts at the ">" at i, or 0
MatchEnd(s, i) ==
    LET p == IF At(s, i + 1) \in {"+", "-"} THEN i + 2 ELSE i + 1
        q == SkipDigits(s, p)
        r == IF At(s, q) = "." THEN SkipDigits(s, q + 1) ELSE q
    IN  IF At(s, i) = ">" /\ q > p /\ At(s, r) = "%" /\ At(s, r + 1) = "<" THEN r + 1 ELSE 0

\* a plausible slip: green only for an explicit plus sign
SpanOpenPlusOnly(token) == IF Head(token) = "+" THEN POSITIVE_SPAN ELSE NEGATIVE_SPAN

\* line 197: the colour by m.group(1).startswith("-")
SpanOpen(token) == IF Head(token) = "-" THEN NEGATIVE_SPAN ELSE POSITIVE_SPAN

\* the substitution from index i on: the text up to the leftmost match, the
\* match wrapped, and the rest after its closing "<"
RECURSIVE ColorFrom(_, _)
ColorFrom(s, i) ==
    LET starts == {k \in i..Len(s) : MatchEnd(s, k) # 0}
    IN  IF starts = {} THEN SubSeq(s, i, Len(s))
        ELSE LET k == CHOOSE k \in starts : \A m \in starts : k <= m
                 j == MatchEnd(s, k)
                 token == SubSeq(s, k + 1, j - 1)
             IN  SubSeq(s, i, k) \o SpanOpen(token) \o token \o SPAN_CLOSE \o <<"<">>
                     \o ColorFrom(s, j + 1)

color_percentages(s) == ColorFrom(s, 1)

(***************************************************************************)
(* generate_html_report (lines 205-271).                                   *)
(* DataFrame.to_html(index=False, classes="styled", escape=False) is given *)
(* by its tags and cell texts, without the white space pandas puts between *)
(* tags. The document is the sequence of its five cards in template order, *)
(* each [title, body].                                                     *)
(***************************************************************************)
UNAVAILABLE == <<"<","p",">","D","a","t","a"," ","c","u","r","r","e","n","t","l","y"," ","u","n","a","v","a","i","l","a","b","l","e","<","/","p",">">>

to_html(df) ==
    <<"<","t","a","b","l","e"," ","b","o","r","d","e","r","=","\"","1","\""," ","c","l","a","s","s","=","\"","d","a","t","a","f","r","a","m","e"," ","s","t","y","l","e","d","\"",">">> \o <<"<","t","h","e","a","d",">">>
        \o <<"<","t","r"," ","s","t","y","l","e","=","\"","t","e","x","t","-","a","l","i","g","n",":"," ","r","i","g","h","t",";","\"",">">>
        \o Concat([c \in 1..Len(df.columns) |-> <<"<","t","h",">">> \o df.columns[c] \o <<"<","/","t","h",">">>])
        \o <<"<","/","t","r",">">> \o <<"<","/","t","h","e","a","d",">">> \o <<"<","t","b","o","d","y",">">>
        \o Concat([r \in 1..Len(df.rows) |->
                     <<"<","t","r",">">>
                         \o Concat([c \in 1..Len(df.rows[r]) |->
                                      <<"<","t","d",">">> \o df.rows[r][c] \o <<"<","/","t","d",">">>])
                         \o <<"<","/","t","r",">">>])
        \o <<"<","/","t","b","o","d","y",">">> \o <<"<","/","t","a","b","l","e",">">>

\* a plausible slip: the table is rendered even when it is empty
SectionNoPlaceholder(df) == color_percentages(to_html(df))

\* lines 208-211: one tabular section
Section(df) == IF ~Empty(df) THEN color_percentages(to_html(df)) ELSE UNAVAILABLE

\* line 241
HeadlineList(hs) ==
    <<"<","u","l",">">> \o Concat([i \in 1..Len(hs) |-> <<"<","l","i",">">> \o hs[i] \o <<"<","/","l","i",">">>]) \o <<"<","/","u","l",">">>

\* lines 213-265: the template filled in
Document(hs, energy, market, stocks, forecast) ==
    << [title |-> "Top Headlines (OKDiario)", body |-> HeadlineList(hs)],
       [title |-> "European Energy Prices", body |-> Section(energy)],
       [title |-> "Largest EU Companies by Market Cap", body |-> Section(market)],
       [title |-> "Global Stock Indices (Placeholder)", body |-> Section(stocks)],
       [title |-> "Madrid Hourly Forecast (Next 12h)", body |-> Section(forecast)] >>

(***************************************************************************)
(* The run of __main__ (lines 276-285) and of generate_html_report.        *)
(* pc is the statement about to run; trace lists the steps taken. file is  *)
(* docs/index.html: "absent", "old" (a previous run's document),           *)
(* "truncated" (opened for writing, nothing written), "partial" or         *)
(* "written" (doc holds the document).                                     *)
(***************************************************************************)
NoFrame == EmptyFrame(<<>>)

CallHeadlines ==
    /\ pc = "headlines"
    /\ headlines' = scrape_okdiario_headlines(net.feed, args.limit)
    /\ trace' = Append(trace, "scrape_okdiario_headlines")
    /\ pc' = "energy"
    /\ UNCHANGED <<args, net, file, energy_df, market_df, stocks_df, forecast_df,
                   html, html_str, colored>>

CallEnergy ==
    /\ pc = "energy"
    /\ energy_df' = scrape_energy_prices(net.energy, args.energy_top_n)
    /\ trace' = Append(trace, "scrape_energy_prices")
    /\ pc' = "market"
    /\ UNCHANGED <<args, net, file, headlines, market_df, stocks_df, forecast_df,
                   html, html_str, colored>>

CallMarket ==
    /\ pc = "market"
    /\ \E tie_up \in BOOLEAN :
           market_df' = scrape_eu_market_cap(net.market, args.market_top_n, tie_up)
    /\ trace' = Append(trace, "scrape_eu_market_cap")
    /\ pc' = "stocks"
    /\ UNCHANGED <<args, net, file, headlines, energy_df, stocks_df, forecast_df,
                   html, html_str, colored>>

CallStocks ==
    /\ pc = "stocks"
    /\ stocks_df' = scrape_global_markets
    /\ trace' = Append(trace, "scrape_global_markets")
    /\ pc' = "forecast"
    /\ UNCHANGED <<args, net, file, headlines, energy_df, market_df, forecast_df,
                   html, html_str, colored>>

CallForecast ==
    /\ pc = "forecast"
    /\ forecast_df' = get_madrid_hourly_forecast(net.weather, args.hours_to_show)
    /\ trace' = Append(trace, "get_madrid_hourly_forecast")
    /\ pc' = "render"
    /\ UNCHANGED <<args, net, file, headlines, energy_df, market_df, stocks_df,
                   html, html_str, colored>>

\* a plausible slip: the output file is opened before the document is built
RenderIntoOpenFile ==
    /\ pc = "render"
    /\ html' = Document(headlines, energy_df, market_df, stocks_df, forecast_df)
    /\ file' = [state |-> "truncated", doc |-> <<>>]
    /\ trace' = Append(trace, "render")
    /\ pc' = "makedirs"
    /\ UNCHANGED <<args, net, headlines, energy_df, market_df, stocks_df,
                   forecast_df, html_str, colored>>

\* lines 206-265: the document is built in memory
Render ==
    /\ pc = "render"
    /\ html' = Document(headlines, energy_df, market_df, stocks_df, forecast_df)
    /\ trace' = Append(trace, "render")
    /\ pc' = "makedirs"
    /\ UNCHANGED <<args, net, file, headlines, energy_df, market_df, stocks_df,
                   forecast_df, html_str, colored>>

\* line 267
MakeDirs ==
    /\ pc = "makedirs"
    /\ trace' = Append(trace, "makedirs")
    /\ pc' = "open"
    /\ UNCHANGED <<args, net, file, headlines, energy_df, market_df, stocks_df,
                   forecast_df, html, html_str, colored>>

\* line 267 raises (docs is a file, no permission): the run ends with a traceback
MakeDirsFails ==
    /\ pc = "makedirs"
    /\ trace' = Append(trace, "makedirs raised")
    /\ pc' = "crashed"
    /\ UNCHANGED <<args, net, file, headlines, energy_df, market_df, stocks_df,
                   forecast_df, html, html_str, colored>>

\* line 269: open(..., "w") creates or truncates the file
OpenFile ==
    /\ pc = "open"
    /\ file' = [state |-> "truncated", doc |-> <<>>]
    /\ trace' = Append(trace, "open")
    /\ pc' = "write"
    /\ UNCHANGED <<args, net, headlines, energy_df, market_df, stocks_df,
                   forecast_df, html, html_str, colored>>

\* line 269 raises (no permission): nothing is touched
OpenFails ==
    /\ pc = "open"
    /\ trace' = Append(trace, "open raised")
    /\ pc' = "crashed"
    /\ UNCHANGED <<args, net, file, headlines, energy_df, market_df, stocks_df,
                   forecast_df, html, html_str, colored>>

\* lines 270-271: the one write, and the close that flushes it
WriteFile ==
    /\ pc = "write"
    /\ file' = [state |-> "written", doc |-> html]
    /\ trace' = Append(trace, "write")
    /\ pc' = "done"
    /\ UNCHANGED <<args, net, headlines, energy_df, market_df, stocks_df,
                   forecast_df, html, html_str, colored>>

\* line 270 or the close raises (disk full): the file is left truncated or cut
WriteFails ==
    /\ pc = "write"
    /\ \E st \in {"truncated", "partial"} : file' = [state |-> st, doc |-> <<>>]
    /\ trace' = Append(trace, "write raised")
    /\ pc' = "crashed"
    /\ UNCHANGED <<args, net, headlines, energy_df, market_df, stocks_df,
                   forecast_df, html, html_str, colored>>

\* color_percentages called on a fragment of its own
CallColor ==
    /\ pc = "color"
    /\ colored' = color_percentages(html_str)
    /\ pc' = "colored"
    /\ UNCHANGED <<args, net, file, headlines, energy_df, market_df, stocks_df,
                   forecast_df, html, trace, html_str>>

Next ==
    \/ CallHeadlines \/ CallEnergy \/ CallMarket \/ CallStocks \/ CallForecast
    \/ Render \/ MakeDirs \/ MakeDirsFails \/ OpenFile \/ OpenFails
    \/ WriteFile \/ WriteFails

(***************************************************************************)
(* The inputs drawn.                                                       *)
(***************************************************************************)
MainArgs ==
    [limit |-> MAIN_LIMIT, energy_top_n |-> MAIN_ENERGY_TOP_N,
     market_top_n |-> MAIN_MARKET_TOP_N, hours_to_show |-> MAIN_HOURS_TO_SHOW]

\* all sequences over S of length at most n
SeqsUpTo(S, n) == UNION {[1..k -> S] : k \in 0..n}

\* --- feeds
Entry(i, kind) ==
    CASE kind = "missing" -> [has_title |-> FALSE, title |-> <<>>]
      [] kind = "empty" -> [has_title |-> TRUE, title |-> <<>>]
      [] kind = "blank" -> [has_title |-> TRUE, title |-> <<" ", " ">>]
      [] OTHER -> [has_title |-> TRUE, title |-> <<" ", LOWER[i], " ">>]

FeedOf(kinds) == [raises |-> FALSE, entries |-> [i \in 1..Len(kinds) |-> Entry(i, kinds[i])]]

EntryKinds == {"missing", "empty", "blank", "title"}

SmallFeeds == {FeedOf(ks) : ks \in SeqsUpTo(EntryKinds, MaxEntries)}

\* ten entries, all titled but at most one that is missing, empty or blank
TenEntryFeeds ==
    {FeedOf([i \in 1..10 |-> IF i = k THEN kind ELSE "title"]) :
        k \in 0..10, kind \in EntryKinds}

FeedRaises == [raises |-> TRUE, entries |-> <<>>]

GoodFeed == FeedOf(<<"title", "empty", "title">>)

\* --- energy pages
PlainCell(j) == <<Digits[j + 1], Digits[j + 1]>>

PercentCell(j) == <<"-", Digits[j + 1], "%">>

\* rows of up to MaxCells cells: a region, then cells of which those at
\* Python positions 1, 2 and 3 may hold a percentage
EnergyRows ==
    UNION {{[j \in 1..n |-> IF j = 1 THEN <<"1","2"," ","E","s">>
                            ELSE IF j - 1 \in pct THEN PercentCell(j - 1)
                            ELSE PlainCell(j - 1)] :
               pct \in SUBSET ({1, 2, 3} \cap 1..(n - 1))} : n \in 0..MaxCells}

ENERGY_HEADER_ROW == <<>>

EnergyPages ==
    {[kind |-> "page", tables |-> << <<ENERGY_HEADER_ROW>> \o trs >>] :
        trs \in SeqsUpTo(EnergyRows, MaxEnergyRows)}

EnergyError == [kind |-> "error", tables |-> <<>>]

EnergyBadStatus == [kind |-> "status", tables |-> <<>>]

EnergyNoTable == [kind |-> "page", tables |-> <<>>]

EnergyEmptyTable == [kind |-> "page", tables |-> << <<>> >>]

GoodEnergy ==
    [kind |-> "page",
     tables |-> << << ENERGY_HEADER_ROW,
                      <<<<"1"," ","S","p","a","i","n">>, <<"-","3",".","2","%">>, <<"6","1",".","5">>, <<"8","0",".","1">>, <<"4","0",".","2">>>>,
                      <<<<"2"," ","F","r","a","n","c","e">>, <<"x">>, <<"4",".","1","%">>, <<"5","5",".","0">>, <<"7","0",".","3">>, <<"4","1",".","9">>>>,
                      <<<<"n","o","t","e">>>> >> >>]

\* --- market-cap CSV exports. A schema gives each column's header text and
\* what the export puts in it; a row is built from its number and a choice of
\* market-cap and change texts.
Col(name, kind) == [name |-> name, kind |-> kind]

SCHEMA_EXPORT ==
    <<Col(<<"R","a","n","k">>, "id"), Col(<<"N","a","m","e">>, "text"), Col(<<"S","y","m","b","o","l">>, "text"),
      Col(<<"m","a","r","k","e","t","c","a","p">>, "mcap"), Col(<<"p","r","i","c","e"," ","(","U","S","D",")">>, "text"), Col(<<"c","o","u","n","t","r","y">>, "text")>>

SCHEMA_TWO == <<Col(<<"N","a","m","e">>, "text"), Col(<<"m","a","r","k","e","t","c","a","p">>, "mcap")>>

SCHEMA_CHANGE ==
    <<Col(<<"#">>, "id"), Col(<<"C","o","m","p","a","n","y">>, "text"), Col(<<" ","M","a","r","k","e","t"," ","C","a","p"," ">>, "mcap"),
      Col(<<"T","o","d","a","y">>, "pct")>>

SCHEMA_POSITIONAL == <<Col(<<"S","y","m","b","o","l">>, "text"), Col(<<"P","r","i","c","e">>, "text"), Col(<<"C","o","u","n","t","r","y">>, "text")>>

SCHEMA_SCRAMBLED ==
    <<Col(<<"M","a","r","k","e","t"," ","C","a","p">>, "mcap"), Col(<<"C","o","m","p","a","n","y"," ","N","a","m","e">>, "text"), Col(<<"R","a","n","k">>, "id"),
      Col(<<"C","h","a","n","g","e"," ","1","d">>, "pct")>>

SCHEMA_DUPLICATE == <<Col(<<"N","a","m","e">>, "text"), Col(<<"n","a","m","e"," ">>, "text"), Col(<<"m","a","r","k","e","t","c","a","p">>, "mcap")>>

Schemas ==
    {SCHEMA_EXPORT, SCHEMA_TWO, SCHEMA_CHANGE, SCHEMA_POSITIONAL, SCHEMA_SCRAMBLED,
     SCHEMA_DUPLICATE}

McapTexts == {<<"1","5","0","0","0","0","0","0","0","0","0","0","0">>, <<"$","2",",","3","0","0",",","0","0","0",",","0","0","0">>, <<"n",".","a",".">>, <<>>}

ChangeTexts == {<<"-","0",".","2","5","%">>, <<"1",".","5">>, <<"n",".","a",".">>, <<>>}

CsvRow(schema, r, pick) ==
    [c \in 1..Len(schema) |->
        CASE schema[c].kind = "id" -> NatStr(r)
          [] schema[c].kind = "text" -> <<UPPER[r], LOWER[c]>>
          [] schema[c].kind = "mcap" -> pick[1]
          [] OTHER -> pick[2]]

CsvOf(schema, picks) ==
    [kind |-> "csv",
     header |-> [c \in 1..Len(schema) |-> schema[c].name],
     rows |-> [r \in 1..Len(picks) |-> CsvRow(schema, r, picks[r])]]

Csvs ==
    {CsvOf(schema, picks) :
        schema \in Schemas, picks \in SeqsUpTo(McapTexts \X ChangeTexts, MaxCsvRows)}

MarketError == [kind |-> "error", header |-> <<>>, rows |-> <<>>]

MarketBadStatus == [kind |-> "status", header |-> <<>>, rows |-> <<>>]

MarketEmptyBody == [kind |-> "empty", header |-> <<>>, rows |-> <<>>]

GoodCsv ==
    CsvOf(SCHEMA_CHANGE, << <<<<"1","5","0","0","0","0","0","0","0","0","0","0","0">>, <<"-","0",".","2","5","%">>>>, <<<<"2","3","0","0","0","0","0","0","0","0">>, <<"1",".","5">>>> >>)

\* whole numbers: up to MaxSig digits among 0, 1, 4, 5 and 9, then up to
\* MaxZeros zeros, and the values the specification names
SigDigits == {"0", "1", "4", "5", "9"}

McapNumbers ==
    {sig \o [i \in 1..z |-> "0"] :
        sig \in {d \in SeqsUpTo(SigDigits, MaxSig) : d # <<>> /\ d[1] # "0"},
        z \in 0..MaxZeros}
    \cup {<<"0">>}
    \cup {<<"1","5","0","0","0","0","0","0","0","0","0","0","0">>, <<"2","3","0","0","0","0","0","0","0","0">>, <<"5","0","0","0","0","0">>, <<"9","9","9","9","9","9","9","9","9">>, <<"9","9","9","9","9","9","9","9","9","9","9","9">>}

\* --- weather payloads
IsoHour(i) == <<"2","0","2","4","-","0","5","-","0","1","T">> \o <<Digits[(i \div 10) + 1], Digits[(i % 10) + 1]>> \o <<":","0","0">>

RAIN_TENTHS == <<0, 25, 1, 2, 0, 14>>

Hourly(lens) ==
    [time |-> [i \in 1..lens[1] |-> IsoHour(i - 1)],
     temperature_2m |-> [i \in 1..lens[2] |-> 100 + i],
     apparent_temperature |-> [i \in 1..lens[3] |-> 80 - 45 * i],
     precipitation_probability |-> [i \in 1..lens[4] |-> 10 * i],
     precipitation |-> [i \in 1..lens[5] |-> RAIN_TENTHS[((i - 1) % 6) + 1]]]

WeatherOf(hourly) == [kind |-> "json", data |-> [hourly |-> hourly]]

WeatherPayloads == {WeatherOf(Hourly(lens)) : lens \in [1..5 -> 0..MaxSeries]}

WeatherError == [kind |-> "error", data |-> [reason |-> "timeout"]]

WeatherBadStatus == [kind |-> "status", data |-> [reason |-> "500"]]

WeatherBadJson == [kind |-> "badjson", data |-> [reason |-> "not json"]]

WeatherNoHourly == [kind |-> "json", data |-> [error |-> TRUE]]

WeatherNoSeries ==
    WeatherOf([time |-> <<IsoHour(0)>>, temperature_2m |-> <<101>>,
               apparent_temperature |-> <<35>>, precipitation_probability |-> <<10>>])

WeatherBadTime ==
    WeatherOf([Hourly(<<2, 2, 2, 2, 2>>) EXCEPT !.time = <<IsoHour(0), <<"t","o","m","o","r","r","o","w">>>>])

GoodWeather == WeatherOf(Hourly(<<2, 2, 2, 2, 2>>))

WeatherNoHours == WeatherOf(Hourly(<<0, 0, 0, 0, 0>>))

WeatherShortRain == WeatherOf(Hourly(<<2, 2, 2, 2, 1>>))

\* --- fragments for color_percentages: up to MaxTokens of these pieces, joined
Pieces ==
    {<<">">>, <<"<">>, <<"-","3",".","2","%">>, <<"4",".","1","%">>, <<"+","5","%">>, <<"7">>, <<"a">>, <<"%">>, <<"-">>, <<"3",".">>}

Fragments == {Concat(ps) : ps \in SeqsUpTo(Pieces, MaxTokens)}

(***************************************************************************)
(* Specifications. Spec is a run of __main__ over the outcomes of the four *)
(* live sources and of the file system. The others call one function on a  *)
(* larger set of inputs.                                                   *)
(***************************************************************************)
DefaultNet == [feed |-> GoodFeed, energy |-> GoodEnergy, market |-> GoodCsv, weather |-> GoodWeather]

Start(p, a, n) ==
    /\ pc = p
    /\ args = a
    /\ net = n
    /\ headlines = <<>>
    /\ energy_df = NoFrame
    /\ market_df = NoFrame
    /\ stocks_df = NoFrame
    /\ forecast_df = NoFrame
    /\ html = <<>>
    /\ trace = <<>>
    /\ html_str = <<>>
    /\ colored = <<>>

Init ==
    /\ \E f \in {FeedRaises, FeedOf(<<>>), GoodFeed},
          e \in {EnergyError, EnergyBadStatus, EnergyNoTable, EnergyEmptyTable, GoodEnergy},
          m \in {MarketError, MarketBadStatus, MarketEmptyBody, GoodCsv,
                 CsvOf(SCHEMA_CHANGE, << <<<<"1","5","0","0","0","0","0","0","0","0","0","0","0">>, <<"n",".","a",".">>>> >>),
                 CsvOf(SCHEMA_TWO, << <<<<"1","5","0","0","0","0","0","0","0","0","0","0","0">>, <<>>>> >>),
                 CsvOf(SCHEMA_EXPORT, <<>>)},
          w \in {WeatherError, WeatherBadStatus, WeatherBadJson, WeatherNoHourly,
                 WeatherNoSeries, WeatherBadTime, GoodWeather, WeatherNoHours,
                 WeatherShortRain} :
          Start("headlines", MainArgs, [feed |-> f, energy |-> e, market |-> m, weather |-> w])
    /\ file \in {[state |-> "absent", doc |-> <<>>], [state |-> "old", doc |-> <<>>]}

Spec == Init /\ [][Next]_vars

NoFile == [state |-> "absent", doc |-> <<>>]

InitHeadlines ==
    /\ \E f \in SmallFeeds \cup TenEntryFeeds \cup {FeedRaises} :
       \E n \in (IF f \in SmallFeeds THEN 0..MaxLimit ELSE {MAIN_LIMIT}) :
          Start("headlines", [MainArgs EXCEPT !.limit = n], [DefaultNet EXCEPT !.feed = f])
    /\ file = NoFile

SpecHeadlines == InitHeadlines /\ [][CallHeadlines]_vars

InitEnergy ==
    /\ \E e \in EnergyPages \cup {EnergyError, EnergyBadStatus, EnergyNoTable, EnergyEmptyTable},
          n \in 0..MaxEnergyRows :
          Start("energy", [MainArgs EXCEPT !.energy_top_n = n], [DefaultNet EXCEPT !.energy = e])
    /\ file = NoFile

SpecEnergy == InitEnergy /\ [][CallEnergy]_vars

InitMarket ==
    /\ \E m \in Csvs \cup {MarketError, MarketBadStatus, MarketEmptyBody},
          n \in 0..MaxCsvRows :
          Start("market", [MainArgs EXCEPT !.market_top_n = n], [DefaultNet EXCEPT !.market = m])
    /\ file = NoFile

SpecMarket == InitMarket /\ [][CallMarket]_vars

InitMcap ==
    /\ \E v \in McapNumbers :
          Start("market", MainArgs,
                [DefaultNet EXCEPT !.market = CsvOf(SCHEMA_EXPORT, << <<v, <<>>>> >>)])
    /\ file = NoFile

SpecMcap == InitMcap /\ [][CallMarket]_vars

InitForecast ==
    /\ \E w \in WeatherPayloads \cup {WeatherError, WeatherBadStatus, WeatherBadJson,
                                      WeatherNoHourly, WeatherNoSeries, WeatherBadTime},
          n \in 0..(MaxSeries + 1) :
          Start("forecast", [MainArgs EXCEPT !.hours_to_show = n], [DefaultNet EXCEPT !.weather = w])
    /\ file = NoFile

SpecForecast == InitForecast /\ [][CallForecast]_vars

InitColor ==
    /\ pc = "color"
    /\ args = MainArgs
    /\ net = DefaultNet
    /\ headlines = <<>>
    /\ energy_df = NoFrame
    /\ market_df = NoFrame
    /\ stocks_df = NoFrame
    /\ forecast_df = NoFrame
    /\ html = <<>>
    /\ trace = <<>>
    /\ html_str \in Fragments
    /\ colored = <<>>
    /\ file = NoFile

SpecColor == InitColor /\ [][CallColor]_vars

(***************************************************************************)
(* Properties.                                                             *)
(***************************************************************************)
Range(f) == {f[i] : i \in DOMAIN f}

Returned(fn) == fn \in Range(trace)

NORMALIZER_ORDER ==
    <<"scrape_okdiario_headlines", "scrape_energy_prices", "scrape_eu_market_cap",
      "scrape_global_markets", "get_madrid_hourly_forecast">>

\* C1: every normalizer returns a well-formed value whatever its source does:
\* the headline list holds at least one non-empty string, and every table
\* carries its fixed column names, with rows as wide as the columns.
HasColumns(df, cols) == df.columns = cols /\ \A r \in 1..Len(df.rows) : Len(df.rows[r]) = Len(cols)

C1_NormalizersWellFormed ==
    /\ Returned("scrape_okdiario_headlines") =>
           headlines # <<>> /\ \A i \in 1..Len(headlines) : headlines[i] # <<>>
    /\ Returned("scrape_energy_prices") => HasColumns(energy_df, ENERGY_COLUMNS)
    /\ Returned("scrape_eu_market_cap") =>
           HasColumns(market_df, MARKET_COLUMNS) \/ HasColumns(market_df, MARKET_COLUMNS \o <<DAILY>>)
    /\ Returned("scrape_global_markets") => HasColumns(stocks_df, scrape_global_markets.columns)
    /\ Returned("get_madrid_hourly_forecast") => HasColumns(forecast_df, FORECAST_COLUMNS)

\* C2: the five normalizers are called in the fixed order whatever the sources
\* do, and the document written has the five sections in order; a tabular
\* section shows the table, with every cell text, when the table has a row,
\* and the text "Data currently unavailable" when it has none.
ShowsTable(body, df) ==
    /\ Contains(body, <<"<","t","a","b","l","e">>)
    /\ ~Contains(body, UNAVAILABLE)
    /\ \A r \in 1..Len(df.rows) : \A c \in 1..Len(df.rows[r]) : Contains(body, df.rows[r][c])

C2_ReportHasAllSections ==
    /\ Len(trace) >= 5 => SubSeq(trace, 1, 5) = NORMALIZER_ORDER
    /\ file.state = "written" =>
           /\ Len(file.doc) = 5
           /\ [k \in 1..5 |-> file.doc[k].title] =
                  <<"Top Headlines (OKDiario)", "European Energy Prices",
                    "Largest EU Companies by Market Cap",
                    "Global Stock Indices (Placeholder)", "Madrid Hourly Forecast (Next 12h)">>
           /\ \A i \in 1..Len(headlines) : Contains(file.doc[1].body, headlines[i])
           /\ \A k \in 2..5 :
                  LET df == <<energy_df, market_df, stocks_df, forecast_df>>[k - 1]
                  IN  IF Len(df.rows) >= 1 THEN ShowsTable(file.doc[k].body, df)
                      ELSE file.doc[k].body = UNAVAILABLE

C2_Witness ==
    /\ file.state = "written"
    /\ energy_df.rows = <<>>
    /\ market_df.rows = <<>>
    /\ forecast_df.rows # <<>>

\* C3: the output file changes only in the open and write steps, which come
\* after the five normalizers have returned and the document has been built;
\* the document is written at most once; so a failure before the open leaves
\* the previous file as it was.
C3_WriteOnceAfterBuild ==
    [][file' # file =>
          /\ pc \in {"open", "write"}
          /\ SubSeq(trace, 1, 7) = NORMALIZER_ORDER \o <<"render", "makedirs">>
          /\ html = Document(headlines, energy_df, market_df, stocks_df, forecast_df)
          /\ "write" \notin Range(trace)
          /\ Cardinality({i \in 1..Len(trace) : trace[i] = "open"}) = (IF pc = "open" THEN 0 ELSE 1)
          /\ file'.state = "written" => file'.doc = html]_vars

C3_Witness ==
    /\ pc = "crashed"
    /\ "open" \notin Range(trace)
    /\ file.state = "old"
    /\ Len(html) = 5

\* C4 as stated: the result is the first N non-empty titles of the feed.
NonBlank(t) == \E j \in 1..Len(t) : ~IsSpace(t[j])

\* t without the white space around it
Core(t) ==
    LET idx == {j \in 1..Len(t) : ~IsSpace(t[j])}
    IN  SubSeq(t, CHOOSE a \in idx : \A b \in idx : a <= b, CHOOSE a \in idx : \A b \in idx : a >= b)

\* the titles of the entries with index in `among` that have a non-blank title, in feed order
TitlesAmong(entries, among) ==
    LET kept == {i \in among : entries[i].has_title /\ NonBlank(entries[i].title)}
        nth(k) == CHOOSE i \in kept : Cardinality({m \in kept : m <= i}) = k
    IN  [k \in 1..Cardinality(kept) |-> Core(entries[nth(k)].title)]

C4_FirstNNonEmptyTitles ==
    (pc = "energy" /\ ~net.feed.raises) =>
        LET all == TitlesAmong(net.feed.entries, 1..Len(net.feed.entries))
            want == SubSeq(all, 1, Min(args.limit, Len(all)))
        IN  want # <<>> => headlines = want

\* C4 amended: the result is the non-empty titles among the first N entries of
\* the feed, in feed order, and the one placeholder line when there are none.
C4_TitlesAmongFirstN ==
    (pc = "energy" /\ ~net.feed.raises) =>
        LET want == TitlesAmong(net.feed.entries, 1..Min(args.limit, Len(net.feed.entries)))
        IN  headlines = IF want = <<>> THEN <<NO_RECENT>> ELSE want

C4_Witness ==
    /\ pc = "energy"
    /\ Len(net.feed.entries) = 10
    /\ args.limit = 8
    /\ Len(headlines) = 7
    /\ Len(TitlesAmong(net.feed.entries, 1..10)) = 9

\* C5: when the five series differ in length the forecast has
\* min(hours_to_show, shortest length) rows, row i from position i of each.
C5_TruncatesToShortest ==
    (pc = "render" /\ net.weather \in WeatherPayloads) =>
        LET h == net.weather.data.hourly
            lens == {Len(h.time), Len(h.temperature_2m), Len(h.apparent_temperature),
                     Len(h.precipitation_probability), Len(h.precipitation)}
            shortest == CHOOSE a \in lens : \A b \in lens : a <= b
            n == Min(args.hours_to_show, shortest)
        IN  /\ Len(forecast_df.rows) = n
            /\ \A i \in 1..n :
                   forecast_df.rows[i] =
                       ForecastRow(h.time, h.temperature_2m, h.apparent_temperature,
                                   h.precipitation_probability, h.precipitation, i)

\* C6: a market-cap or daily-change text that does not parse as a number stays
\* as it is in its cell, and the other rows are still returned.
C6_MalformedRowKept ==
    (pc = "stocks" /\ net.market.kind = "csv"
        /\ net.market.header = [c \in 1..4 |-> SCHEMA_CHANGE[c].name]) =>
        LET n == Min(args.market_top_n, Len(net.market.rows))
        IN  /\ Len(market_df.rows) = n
            /\ \A r \in 1..n :
                   /\ net.market.rows[r][3] = <<"n",".","a",".">> => market_df.rows[r][3] = <<"n",".","a",".">>
                   /\ net.market.rows[r][4] = <<"n",".","a",".">> => market_df.rows[r][4] = <<"n",".","a",".">>

\* C7: for each table row of at least 3 cells, Change is cell 1 when it holds
\* a "%", else cell 2 when that holds one, else empty; Avg/High/Low are the
\* three cells after the change cell (cells 1, 2, 3 when there is none), empty
\* past the row's end. Shorter rows are dropped; at most top_n rows, in order.
C7_ColumnDetection ==
    (pc = "market" /\ net.energy.kind = "page" /\ net.energy.tables # <<>>) =>
        LET table == net.energy.tables[1]
            long == SelectSeq(SubSeq(table, 2, Len(table)), LAMBDA tr : Len(tr) >= 3)
            n == Min(args.energy_top_n, Len(long))
            cell(tr, k) == IF k < Len(tr) THEN tr[k + 1] ELSE <<>>
        IN  /\ Len(energy_df.rows) = n
            /\ \A k \in 1..n :
                   LET tr == long[k]
                       out == energy_df.rows[k]
                   IN  IF "%" \in Range(tr[2])
                       THEN SubSeq(out, 2, 5) = <<tr[2], cell(tr, 2), cell(tr, 3), cell(tr, 4)>>
                       ELSE IF "%" \in Range(tr[3])
                       THEN SubSeq(out, 2, 5) = <<tr[3], cell(tr, 3), cell(tr, 4), cell(tr, 5)>>
                       ELSE SubSeq(out, 2, 5) = <<<<>>, cell(tr, 1), cell(tr, 2), cell(tr, 3)>>

C7_Witness ==
    /\ pc = "market"
    /\ net.energy.kind = "page" /\ net.energy.tables # <<>>
    /\ Len(net.energy.tables[1]) = 3
    /\ Len(net.energy.tables[1][2]) = 2
    /\ Len(net.energy.tables[1][3]) = 5
    /\ "%" \notin Range(net.energy.tables[1][3][2])
    /\ "%" \in Range(net.energy.tables[1][3][3])
    /\ Len(energy_df.rows) = 1
    /\ energy_df.rows[1][5] = <<>>

\* C8: a whole market-cap value v shows as "$" + v/10^12 to 2 decimals + "T"
\* from 10^12 on, as "$" + v/10^9 to 2 decimals + "B" from 10^9 on, and as "$"
\* + v with thousands separators below. v is read by its digits: v >= 10^k is
\* "more than k digits", and the hundredths shown are the digits above
\* 10^(k-2), or one more, according to the digits below.
IsScaled(out, v, k, suffix) ==
    LET n == Len(v)
        hi == DigitsVal(SubSeq(v, 1, n - k + 2))
        lo == SubSeq(v, n - k + 3, n)
        half == <<"5">> \o [i \in 1..(k - 3) |-> "0"]
        below == \E i \in 1..Len(lo) :
                     /\ SubSeq(lo, 1, i - 1) = SubSeq(half, 1, i - 1)
                     /\ DigitVal(lo[i]) < DigitVal(half[i])
        shown(h) == <<"$">> \o NatStr(h \div 100) \o <<".">> \o NatStr((h % 100) \div 10)
                        \o NatStr(h % 10) \o <<suffix>>
    IN  \/ out = shown(hi) /\ (below \/ lo = half)
        \/ out = shown(hi + 1) /\ ~below

IsGrouped(out, v) ==
    /\ out # <<>> /\ Head(out) = "$"
    /\ Remove(Tail(out), ",") = v
    /\ \A p \in 1..Len(Tail(out)) :
           (Tail(out)[p] = ",") <=> ((Len(Tail(out)) - p + 1) % 4 = 0)

C8_FormatMcap ==
    pc = "stocks" =>
        LET v == net.market.rows[1][4]
            out == market_df.rows[1][3]
        IN  /\ Len(market_df.rows) = 1
            /\ Len(v) >= 13 => IsScaled(out, v, 12, "T")
            /\ Len(v) \in 10..12 => IsScaled(out, v, 9, "B")
            /\ Len(v) <= 9 => IsGrouped(out, v)
            /\ v = <<"1","5","0","0","0","0","0","0","0","0","0","0","0">> => out = <<"$","1",".","5","0","T">>
            /\ v = <<"2","3","0","0","0","0","0","0","0","0">> => out = <<"$","2",".","3","0","B">>
            /\ v = <<"5","0","0","0","0","0">> => out = <<"$","5","0","0",",","0","0","0">>
            /\ v = <<"1","0","0","0","0","0","0","0","0","0","0","0","0">> => out = <<"$","1",".","0","0","T">>
            /\ v = <<"1","0","0","0","0","0","0","0","0","0">> => out = <<"$","1",".","0","0","B">>

C8_Witness ==
    /\ pc = "stocks"
    /\ net.market.rows[1][4] = <<"1","0","0","0","0","0","0","0","0","0","0","0","0">>
    /\ market_df.rows[1][3] = <<"$","1",".","0","0","T">>

\* C9: color_percentages wraps each token of the shape sign? digits (. digits)?
\* % that stands between ">" and "<" in a span, red when the token starts with
\* "-" and green otherwise, and leaves every other character where it was.
IsPercentToken(t) ==
    \E a \in 0..1, b \in 1..Len(t), c \in 0..1 :
        /\ a = 1 => t[1] \in {"+", "-"}
        /\ a + b + c < Len(t)
        /\ \A i \in (a + 1)..(a + b) : IsDigit(t[i])
        /\ c = 1 => t[a + b + 1] = "."
        /\ \A i \in (a + b + c + 1)..(Len(t) - 1) : IsDigit(t[i]) /\ c = 1
        /\ t[Len(t)] = "%"

TokenSpans(s) ==
    {m \in (1..Len(s)) \X (1..Len(s)) :
        /\ m[1] < m[2] /\ s[m[1]] = ">" /\ s[m[2]] = "<"
        /\ IsPercentToken(SubSeq(s, m[1] + 1, m[2] - 1))}

Wrapped(s) ==
    Concat([i \in 1..Len(s) |->
              IF \E m \in TokenSpans(s) : m[1] = i
              THEN <<s[i]>> \o (IF s[i + 1] = "-" THEN NEGATIVE_SPAN ELSE POSITIVE_SPAN)
              ELSE IF \E m \in TokenSpans(s) : m[2] = i
              THEN SPAN_CLOSE \o <<s[i]>>
              ELSE <<s[i]>>])

C9_ColorPercentages == pc = "colored" => colored = Wrapped(html_str)

C9_Witness ==
    /\ pc = "colored"
    /\ html_str = <<">","-","3",".","2","%","<","7">>
    /\ colored = <<">">> \o NEGATIVE_SPAN \o <<"-","3",".","2","%">> \o SPAN_CLOSE \o <<"<","7">>

\* C10: each role is the first column whose name holds its keyword, else the
\* column at its position (0, 1, 2; none for the change); when every role is
\* resolved that way the table is returned with columns Rank, Company, Market
\* Cap (and Daily % when there is a change column) and min(top_n, rows) rows
\* taken from the resolved columns.
KEYWORDS ==
    [rank |-> {<<"r","a","n","k">>}, name |-> {<<"n","a","m","e">>, <<"c","o","m","p","a","n","y">>}, mcap |-> {<<"m","a","r","k","e","t">>},
     change |-> {<<"t","o","d","a","y">>, <<"c","h","a","n","g","e">>, <<"1","d">>}]

HasKeyword(role, c) == \E w \in KEYWORDS[role] : Contains(c, w)

Resolved(cols, role, k) ==
    LET hits == {i \in 1..Len(cols) : HasKeyword(role, cols[i])}
    IN  IF hits # {} THEN CHOOSE i \in hits : \A j \in hits : i <= j
        ELSE IF k + 1 <= Len(cols) THEN k + 1 ELSE 0

C10_FirstMatchElsePosition ==
    (pc = "stocks" /\ net.market.kind = "csv") =>
        LET cols == [i \in 1..Len(net.market.header) |-> NormalizeHeader(net.market.header[i])]
            rank == Resolved(cols, "rank", 0)
            name == Resolved(cols, "name", 1)
            mcap == Resolved(cols, "mcap", 2)
            change == Resolved(cols, "change", Len(cols))
            n == Min(args.market_top_n, Len(net.market.rows))
            parses == \A r \in 1..n : change # 0 => ~format_daily(CsvCell(net.market.rows[r][change])).raised
        IN  (/\ rank # 0 /\ name # 0 /\ mcap # 0
             /\ \A i, j \in 1..Len(cols) : cols[i] = cols[j] => i = j
             /\ parses) =>
                /\ market_df.columns = MARKET_COLUMNS \o (IF change # 0 THEN <<DAILY>> ELSE <<>>)
                /\ Len(market_df.rows) = n
                /\ \A r \in 1..n :
                       /\ market_df.rows[r][1] = net.market.rows[r][rank]
                       /\ market_df.rows[r][2] = net.market.rows[r][name]

====
